---- MODULE Spec2Model ----
(***************************************************************************)
(* Interrupt coordination of browser_use/utils/signal_handler.py.          *)
(*                                                                         *)
(* The model follows one SignalHandler bound to one asyncio loop; the loop *)
(* and every call of the handler's methods run on one thread, which is the *)
(* interpreter's main thread or not (cfg.main_thread): off the main thread *)
(* signal.signal and loop.add_signal_handler raise.  The loop implements   *)
(* add_signal_handler / remove_signal_handler or not (cfg.loop_signals).   *)
(* The state is the handler's                                              *)
(* attributes, the two loop attributes ctrl_c_pressed / waiting_for_input, *)
(* the module global _exiting, the interpreter's signal table, the loop's  *)
(* own signal-handler registry, the signal numbers written to the loop's   *)
(* wakeup descriptor and not yet dispatched, the task set of the loop and  *)
(* the position of the main thread (running the loop, or blocked in the    *)
(* input() of wait_for_resume).                                            *)
(***************************************************************************)
EXTENDS Integers, Sequences, FiniteSets, TLC

(* ----------------------------- bounds --------------------------------- *)
\* signal numbers that may sit undispatched in the loop's wakeup queue
MaxPending == 1
\* tasks that run to their end during the run
MaxFinished == 1
\* exit-callback invocations after which the callback no longer raises
MaxExitCalls == 2

(* --------------------------- vocabulary -------------------------------- *)
SIGINT == "SIGINT"
SIGTERM == "SIGTERM"
Signals == {SIGINT, SIGTERM}

None == "None"

\* values of the interpreter's signal table (signal.getsignal)
default_int_handler == "default_int_handler"
SIG_DFL == "SIG_DFL"
SIG_IGN == "SIG_IGN"
custom_handler == "custom_handler"
sighandler_noop == "_sighandler_noop"
windows_handler == "windows_handler"

\* task names, character by character, so that `in' is a real substring test
n_step == <<"s", "t", "e", "p">>
n_multi_act == <<"m", "u", "l", "t", "i", "_", "a", "c", "t">>
n_get_next_action == <<"g", "e", "t", "_", "n", "e", "x", "t", "_", "a", "c", "t", "i", "o", "n">>
n_up == <<"u", "p">>
n_step_3 == n_step \o <<"-", "3">>
n_multi_act_7 == n_multi_act \o <<"-", "7">>
n_cleanup_1 == <<"c", "l", "e", "a", "n">> \o n_up \o <<"-", "1">>

\* the tasks of the loop (asyncio.all_tasks), by name
TaskNames == {n_step_3, n_multi_act_7, n_cleanup_1}

\* interruptible_task_patterns arguments tried (None = argument omitted)
PatternArgs ==
    {[given |-> FALSE, list |-> <<>>],
     [given |-> TRUE, list |-> <<>>],
     [given |-> TRUE, list |-> <<n_step, n_multi_act>>],
     [given |-> TRUE, list |-> <<n_up>>]}

\* what another party left for the two signals before register(): Python's
\* start-up state, SIG_IGN, a handler of its own, callbacks of its own
\* registered on the same loop with loop.add_signal_handler, or handlers not
\* installed from Python (signal.getsignal and signal.signal answer None)
other_callback == "other_callback"
PriorKinds == {"default", SIG_IGN, custom_handler, other_callback, None}

(* ------------------------------ state ---------------------------------- *)
VARIABLES
    cfg,                      \* constructor arguments and platform
    ctrl_c_pressed,           \* loop.ctrl_c_pressed
    waiting_for_input,        \* loop.waiting_for_input
    _exiting,                  \* module global _exiting
    original_sigint_handler,  \* self.original_sigint_handler
    original_sigterm_handler, \* self.original_sigterm_handler
    original_handler,         \* local of wait_for_resume while it is active
    handlers,                 \* interpreter signal table, per signal
    loop_handlers,            \* loop._signal_handlers: signals with a callback of this handler
    other_callbacks,          \* loop._signal_handlers: signals with another party's callback
    registered,               \* register() has been called (history)
    pending,                  \* signals written to the wakeup fd, undispatched
    pc,                       \* main thread: "loop" or "input"
    alive,                    \* the process has not terminated
    exit_code,                \* <<c>> once os._exit(c) ran, else <<>>
    done,                     \* tasks for which task.done() holds
    cancel_requested,         \* tasks on which task.cancel() was called
    exit_calls,               \* invocations of custom_exit_callback so far
    last                      \* what the last step did (history)

vars == <<cfg, ctrl_c_pressed, waiting_for_input, _exiting,
          original_sigint_handler, original_sigterm_handler, original_handler,
          handlers, loop_handlers, other_callbacks, registered,
          pending, pc, alive, exit_code,
          done, cancel_requested, exit_calls, last>>


(* ------------------------ pure helpers --------------------------------- *)
\* variant: the pattern is looked for at the start of the name only
IsPrefix(pattern, name) ==
    Len(pattern) <= Len(name) /\ SubSeq(name, 1, Len(pattern)) = pattern

\* Python `pattern in task_name' on str: pattern occurs as a substring
\* (the empty pattern occurs in every name)
IsSubstring(pattern, name) ==
    \E i \in 0..(Len(name) - Len(pattern)) :
        SubSeq(name, i + 1, i + Len(pattern)) = pattern

\* __init__: interruptible_task_patterns or ['step', 'multi_act', 'get_next_action']
\* (`or' takes the default for None and for the empty list alike)
interruptible_task_patterns ==
    IF cfg.patterns.given /\ cfg.patterns.list # <<>>
    THEN cfg.patterns.list
    ELSE <<n_step, n_multi_act, n_get_next_action>>

\* any(pattern in task_name for pattern in self.interruptible_task_patterns)
Interruptible(name) ==
    \E k \in 1..Len(interruptible_task_patterns) :
        IsSubstring(interruptible_task_patterns[k], name)

\* _cancel_interruptible_tasks: the tasks on which cancel() is called.  The
\* first loop takes every task other than current_task, the second block takes
\* current_task itself (current is NoTask when no task is executing).
\* asyncio.current_task(loop) when no task is executing
NoTask == <<>>

CancelSet(current) ==
    {t \in TaskNames : t # current /\ t \notin done /\ Interruptible(t)}
    \cup {t \in TaskNames : t = current /\ t \notin done /\ Interruptible(t)}

\* truth value of a recorded handler in `if self.original_sigint_handler:'
\* (None is false; signal.SIG_DFL is the enum member with value 0, also false)
Truthy(h) == h \notin {None, SIG_DFL}

\* a signal number written to the loop's wakeup descriptor
Enqueue(q, sig) == IF Len(q) < MaxPending THEN Append(q, sig) ELSE q

\* whether a host callback raises when invoked (an input of every invocation)
ExitCallbackRaises == IF exit_calls + 1 < MaxExitCalls THEN BOOLEAN ELSE {FALSE}

\* the record kept in `last': the last operation of the coordinator and what
\* it did; env tells that signals arrived or tasks ran since
\* raised: an exception left the operation; caught: an exception of a host
\* callback or of a signal primitive was caught inside it; steps: what the
\* operation did, in the order of its statements; chain: the register ("r") / unregister ("u")
\* calls made in a row up to here; before: what was installed when the chain
\* began; first: what was installed after the first call of the chain
NoObs == [handlers |-> [s \in Signals |-> None], loop_handlers |-> {}, other_callbacks |-> {}]

\* the outcomes of one call of a host callback: it raises or it does not
CallbackRaises == IF cfg.has_callbacks THEN BOOLEAN ELSE {FALSE}

Did(op) ==
    [op |-> op, cancelled |-> {}, pause_called |-> FALSE,
     resume_called |-> FALSE, exit_called |-> FALSE, raised |-> FALSE,
     caught |-> FALSE, steps |-> <<>>, chain |-> <<>>, before |-> NoObs,
     first |-> NoObs, env |-> FALSE]

Env(l) == [l EXCEPT !.env = TRUE]

(* ------------------------------ Init ----------------------------------- *)
\* __init__ followed by _initialize_loop_state; the signal table holds what
\* the host had installed before
Init ==
    /\ cfg \in [is_windows : BOOLEAN,
                exit_on_second_int : BOOLEAN,
                has_callbacks : BOOLEAN,
                patterns : PatternArgs,
                prior : PriorKinds,
                main_thread : BOOLEAN,
                loop_signals : BOOLEAN]
    \* asyncio loops take signal callbacks on Unix and on the main thread only
    /\ cfg.prior = other_callback
            => (~cfg.is_windows /\ cfg.main_thread /\ cfg.loop_signals)
    \* the loop's signal support plays no part where the loop is never asked
    \* (is_windows) or refuses for the thread's sake already
    /\ (cfg.is_windows \/ ~cfg.main_thread) => cfg.loop_signals
    /\ ctrl_c_pressed = FALSE
    /\ waiting_for_input = FALSE
    /\ _exiting = FALSE
    /\ original_sigint_handler = None
    /\ original_sigterm_handler = None
    /\ original_handler = None
    /\ handlers = [s \in Signals |->
                     IF cfg.prior = "default"
                     THEN (IF s = SIGINT THEN default_int_handler ELSE SIG_DFL)
                     ELSE IF cfg.prior = other_callback THEN sighandler_noop
                     ELSE cfg.prior]
    /\ loop_handlers = {}
    /\ other_callbacks = (IF cfg.prior = other_callback THEN Signals ELSE {})
    /\ registered = FALSE
    /\ pending = <<>>
    /\ pc = "loop"
    /\ alive = TRUE
    /\ exit_code = <<>>
    /\ done = {}
    /\ cancel_requested = {}
    /\ exit_calls = 0
    /\ last = Did("init")

(* ---------------------- variable groups -------------------------------- *)
regvars == <<original_sigint_handler, original_sigterm_handler, handlers, loop_handlers,
             other_callbacks, registered>>
flagvars == <<ctrl_c_pressed, waiting_for_input>>
taskvars == <<done, cancel_requested>>
exitvars == <<_exiting, exit_calls, alive, exit_code>>

(* ------------- the statements of the handlers, in their order ---------- *)
Opt(cond, step) == IF cond THEN <<step>> ELSE <<>>

\* _handle_second_ctrl_c: flag and guarded callback when not yet exiting, then
\* the notice, then os._exit
second_ctrl_c_steps ==
    (IF ~_exiting
     THEN <<"set_exiting">> \o Opt(cfg.has_callbacks, "exit_callback")
     ELSE <<>>) \o <<"print_notice", "os_exit">>

\* sigterm_handler: flag, notice and callback when not yet exiting, then
\* os._exit, which an exception of the callback does not reach
sigterm_steps(raises) ==
    IF ~_exiting
    THEN <<"set_exiting", "print_notice">> \o Opt(cfg.has_callbacks, "exit_callback")
             \o Opt(~(cfg.has_callbacks /\ raises), "os_exit")
    ELSE <<"os_exit">>

\* windows_handler: notice, callback, os._exit
windows_steps(raises) ==
    <<"print_notice">> \o Opt(cfg.has_callbacks, "exit_callback")
        \o Opt(~(cfg.has_callbacks /\ raises), "os_exit")

\* variant: the state becomes Paused after cancellation and the pause callback
first_interrupt_steps_paused_last ==
    <<"cancel_tasks">> \o Opt(cfg.has_callbacks, "pause_callback")
        \o <<"set_ctrl_c_pressed", "print_separator">>

\* sigint_handler's pause path: ctrl_c_pressed, cancellation, pause callback,
\* separator line
first_interrupt_steps ==
    <<"set_ctrl_c_pressed", "cancel_tasks">> \o Opt(cfg.has_callbacks, "pause_callback")
        \o <<"print_separator">>

(* ------------------------ the exit primitives -------------------------- *)
\* variant: the process ends with a failure status
os_exit_failure ==
    /\ alive' = FALSE
    /\ exit_code' = <<1>>

\* os._exit(0)
os_exit ==
    /\ alive' = FALSE
    /\ exit_code' = <<0>>

\* variant: the callback runs and the notice is printed, but control returns
_handle_second_ctrl_c_returns(op) ==
    /\ _exiting' = TRUE
    /\ exit_calls' = IF ~_exiting /\ cfg.has_callbacks THEN exit_calls + 1 ELSE exit_calls
    /\ UNCHANGED <<alive, exit_code>>
    /\ \E raises \in CallbackRaises :
       last' = [Did(op) EXCEPT !.exit_called = (~_exiting /\ cfg.has_callbacks),
                               !.caught = (~_exiting /\ cfg.has_callbacks /\ raises),
                               !.steps = SubSeq(second_ctrl_c_steps, 1,
                                                Len(second_ctrl_c_steps) - 1)]

\* _handle_second_ctrl_c: guarded callback (its exception is caught), then exit
_handle_second_ctrl_c(op) ==
    /\ _exiting' = TRUE
    /\ exit_calls' = IF ~_exiting /\ cfg.has_callbacks THEN exit_calls + 1 ELSE exit_calls
    /\ os_exit
    /\ \E raises \in CallbackRaises :
       last' = [Did(op) EXCEPT !.exit_called = (~_exiting /\ cfg.has_callbacks),
                               !.caught = (~_exiting /\ cfg.has_callbacks /\ raises),
                               !.steps = second_ctrl_c_steps]

(* ----------------------- the signal handlers --------------------------- *)
\* variant: the pause callback is called outside any try block
pause_callback_unguarded(raises) ==
    [called |-> cfg.has_callbacks, caught |-> FALSE,
     raised |-> (cfg.has_callbacks /\ raises)]

\* sigint_handler's call of the pause callback: inside try / except Exception,
\* which logs the exception and goes on
pause_callback(raises) ==
    [called |-> cfg.has_callbacks, caught |-> (cfg.has_callbacks /\ raises),
     raised |-> FALSE]

\* variant: sigint_handler without the test of waiting_for_input
sigint_handler_without_waiting_test ==
    /\ UNCHANGED <<cfg, waiting_for_input, regvars, original_handler, pc, done>>
    /\ IF _exiting
       THEN /\ os_exit
            /\ last' = [Did("sigint_handler") EXCEPT !.steps = <<"os_exit">>]
            /\ UNCHANGED <<ctrl_c_pressed, _exiting, exit_calls, cancel_requested>>
       ELSE IF ctrl_c_pressed /\ cfg.exit_on_second_int
       THEN /\ _handle_second_ctrl_c("sigint_handler")
            /\ UNCHANGED <<ctrl_c_pressed, cancel_requested>>
       ELSE \E current \in TaskNames \cup {NoTask}, raises \in CallbackRaises :
            /\ ctrl_c_pressed' = TRUE
            /\ cancel_requested' = cancel_requested \cup CancelSet(current)
            /\ last' = [Did("sigint_handler") EXCEPT
                            !.cancelled = CancelSet(current),
                            !.pause_called = pause_callback(raises).called,
                            !.caught = pause_callback(raises).caught,
                            !.raised = pause_callback(raises).raised,
                            !.steps = first_interrupt_steps]
            /\ UNCHANGED exitvars

\* sigint_handler, as run by the loop for one SIGINT
sigint_handler ==
    /\ UNCHANGED <<cfg, waiting_for_input, regvars, original_handler, pc, done>>
    /\ IF _exiting
       THEN /\ os_exit
            /\ last' = [Did("sigint_handler") EXCEPT !.steps = <<"os_exit">>]
            /\ UNCHANGED <<ctrl_c_pressed, _exiting, exit_calls, cancel_requested>>
       ELSE IF ctrl_c_pressed /\ waiting_for_input
       THEN /\ last' = Did("sigint_handler")
            /\ UNCHANGED <<ctrl_c_pressed, exitvars, cancel_requested>>
       ELSE IF ctrl_c_pressed /\ cfg.exit_on_second_int
       THEN /\ _handle_second_ctrl_c("sigint_handler")
            /\ UNCHANGED <<ctrl_c_pressed, cancel_requested>>
       ELSE \E current \in TaskNames \cup {NoTask}, raises \in CallbackRaises :
            /\ ctrl_c_pressed' = TRUE
            /\ cancel_requested' = cancel_requested \cup CancelSet(current)
            /\ last' = [Did("sigint_handler") EXCEPT
                            !.cancelled = CancelSet(current),
                            !.pause_called = pause_callback(raises).called,
                            !.caught = pause_callback(raises).caught,
                            !.raised = pause_callback(raises).raised,
                            !.steps = first_interrupt_steps]
            /\ UNCHANGED exitvars

\* sigterm_handler, as run by the loop for one SIGTERM; an exception of the
\* exit callback leaves the handler before os._exit and is logged by the loop
sigterm_handler ==
    /\ UNCHANGED <<cfg, flagvars, regvars, original_handler, pc, taskvars>>
    /\ IF ~_exiting
       THEN \E raises \in ExitCallbackRaises :
            /\ _exiting' = TRUE
            /\ exit_calls' = IF cfg.has_callbacks THEN exit_calls + 1 ELSE exit_calls
            /\ IF cfg.has_callbacks /\ raises
               THEN UNCHANGED <<alive, exit_code>>
               ELSE os_exit
            /\ last' = [Did("sigterm_handler") EXCEPT
                            !.exit_called = cfg.has_callbacks,
                            !.raised = (cfg.has_callbacks /\ raises),
                            !.steps = sigterm_steps(raises)]
       ELSE /\ os_exit
            /\ last' = [Did("sigterm_handler") EXCEPT !.steps = sigterm_steps(FALSE)]
            /\ UNCHANGED <<_exiting, exit_calls>>

\* register.windows_handler, run by the interpreter in the main thread; an
\* exception of the exit callback propagates into the interrupted host code
run_windows_handler ==
    /\ UNCHANGED <<cfg, flagvars, regvars, original_handler, pc, taskvars, _exiting, pending>>
    /\ \E raises \in ExitCallbackRaises :
       /\ exit_calls' = IF cfg.has_callbacks THEN exit_calls + 1 ELSE exit_calls
       /\ IF cfg.has_callbacks /\ raises
          THEN UNCHANGED <<alive, exit_code>>
          ELSE os_exit
       /\ last' = [Did("windows_handler") EXCEPT
                       !.exit_called = cfg.has_callbacks,
                       !.raised = (cfg.has_callbacks /\ raises),
                       !.steps = windows_steps(raises)]

(* --------------------- the loop dispatching signals -------------------- *)
\* the loop reads a SIGINT from its wakeup descriptor and runs the callback
\* registered with add_signal_handler; it can do so only while the main
\* thread is running the loop
DispatchSigint ==
    /\ alive /\ pc = "loop"
    /\ pending # <<>> /\ Head(pending) = SIGINT
    /\ SIGINT \in loop_handlers
    /\ pending' = Tail(pending)
    /\ sigint_handler

DispatchSigterm ==
    /\ alive /\ pc = "loop"
    /\ pending # <<>> /\ Head(pending) = SIGTERM
    /\ SIGTERM \in loop_handlers
    /\ pending' = Tail(pending)
    /\ sigterm_handler

\* the loop runs the callback another party registered for the signal
DispatchOther ==
    /\ alive /\ pc = "loop"
    /\ pending # <<>> /\ Head(pending) \in other_callbacks
    /\ pending' = Tail(pending)
    /\ last' = Env(last)
    /\ UNCHANGED <<cfg, flagvars, regvars, original_handler, pc, taskvars, exitvars>>

\* a signal number whose callback was removed meanwhile is dropped
DispatchDropped ==
    /\ alive /\ pc = "loop"
    /\ pending # <<>> /\ Head(pending) \notin (loop_handlers \cup other_callbacks)
    /\ pending' = Tail(pending)
    /\ last' = Env(last)
    /\ UNCHANGED <<cfg, flagvars, regvars, original_handler, pc, taskvars, exitvars>>

(* ------------------------- wait_for_resume ----------------------------- *)
\* variant: the handler is restored and the flag is left set
wait_for_resume_finally_keeps_flag ==
    /\ handlers' = [handlers EXCEPT ![SIGINT] = original_handler]
    /\ UNCHANGED waiting_for_input

\* the finally block: restore the handler read on entry, then clear the flag.
\* signal.signal raises ValueError off the main thread, and TypeError for None
\* (getsignal's answer for a handler not installed from Python): the except
\* clause takes it and the assignment of the flag is skipped
wait_for_resume_finally ==
    IF cfg.main_thread /\ original_handler # None
    THEN /\ handlers' = [handlers EXCEPT ![SIGINT] = original_handler]
         /\ waiting_for_input' = FALSE
    ELSE UNCHANGED <<handlers, waiting_for_input>>

\* wait_for_resume up to the blocking input(): set the flag, remember the
\* installed SIGINT handler, install signal.default_int_handler; off the main
\* thread signal.signal raises the ValueError that the code passes over
WaitForResumeBegin ==
    /\ alive /\ pc = "loop"
    /\ waiting_for_input' = TRUE
    /\ original_handler' = handlers[SIGINT]
    /\ handlers' = IF cfg.main_thread
                   THEN [handlers EXCEPT ![SIGINT] = default_int_handler]
                   ELSE handlers
    /\ pc' = "input"
    /\ last' = Did("wait_for_resume_begin")
    /\ UNCHANGED <<cfg, ctrl_c_pressed, original_sigint_handler, original_sigterm_handler,
                   loop_handlers, other_callbacks, registered, pending, taskvars, exitvars>>

\* the operator presses Enter: input() returns, the resume callback runs (its
\* exception propagates to the caller after the finally block)
OperatorEnter ==
    /\ alive /\ pc = "input"
    /\ \E raises \in BOOLEAN :
       last' = [Did("wait_for_resume") EXCEPT
                    !.resume_called = cfg.has_callbacks,
                    !.raised = (cfg.has_callbacks /\ raises)]
    /\ wait_for_resume_finally
    /\ original_handler' = None
    /\ pc' = "loop"
    /\ UNCHANGED <<cfg, ctrl_c_pressed, original_sigint_handler, original_sigterm_handler,
                   loop_handlers, other_callbacks, registered, pending, taskvars, exitvars>>

\* input() raises something other than KeyboardInterrupt (EOFError on a closed
\* stdin): no except clause takes it, the finally block runs, it propagates
ReadRaises ==
    /\ alive /\ pc = "input"
    /\ last' = [Did("wait_for_resume_read_error") EXCEPT !.raised = TRUE]
    /\ wait_for_resume_finally
    /\ original_handler' = None
    /\ pc' = "loop"
    /\ UNCHANGED <<cfg, ctrl_c_pressed, original_sigint_handler, original_sigterm_handler,
                   loop_handlers, other_callbacks, registered, pending, taskvars, exitvars>>

\* Ctrl+C during input(): default_int_handler raises KeyboardInterrupt at the
\* call site, the except clause runs _handle_second_ctrl_c, which never returns.
\* Python runs signal handlers in the main thread only, so a read on another
\* thread never sees the KeyboardInterrupt
KeyboardInterruptInRead ==
    /\ alive /\ pc = "input"
    /\ cfg.main_thread
    /\ handlers[SIGINT] = default_int_handler
    /\ pending' = IF SIGINT \in loop_handlers THEN Enqueue(pending, SIGINT) ELSE pending
    /\ _handle_second_ctrl_c("wait_for_resume_interrupt")
    /\ UNCHANGED <<cfg, flagvars, regvars, original_handler, pc, taskvars>>

(* ------------------------------ reset ---------------------------------- *)
reset ==
    /\ alive /\ pc = "loop"
    /\ ctrl_c_pressed' = FALSE
    /\ waiting_for_input' = FALSE
    /\ last' = Did("reset")
    /\ UNCHANGED <<cfg, regvars, original_handler, pending, pc, taskvars, exitvars>>

(* ----------------------- register / unregister ------------------------- *)
\* what is installed for the two signals: the interpreter's table and the
\* callbacks kept by the loop
Obs ==
    [handlers |-> handlers, loop_handlers |-> loop_handlers,
     other_callbacks |-> other_callbacks]

\* loop.add_signal_handler(sig, callback): records the callback in the loop
\* (in place of any callback the loop had for sig), installs the loop's no-op
\* handler in the signal table, returns None
add_signal_handler(t, sig) ==
    [handlers |-> [t.handlers EXCEPT ![sig] = sighandler_noop],
     loop_handlers |-> t.loop_handlers \cup {sig},
     other_callbacks |-> t.other_callbacks \ {sig}]

\* loop.remove_signal_handler(sig): nothing when the loop has no callback for
\* sig; otherwise forgets it, whoever registered it, and installs
\* default_int_handler (SIGINT) or SIG_DFL (others)
remove_signal_handler(t, sig) ==
    IF sig \notin (t.loop_handlers \cup t.other_callbacks)
    THEN t
    ELSE [handlers |-> [t.handlers EXCEPT
                            ![sig] = IF sig = SIGINT THEN default_int_handler ELSE SIG_DFL],
          loop_handlers |-> t.loop_handlers \ {sig},
          other_callbacks |-> t.other_callbacks \ {sig}]

\* the history of a register ("r") or unregister ("u") call.  A chain begins
\* with the first register() of the run, which finds what another party left
\* installed; the chains of calls made in a row that are followed from there
\* are r, rr, ru, rru and rur
Chains == {<<"r">>, <<"r", "r">>, <<"r", "u">>, <<"r", "r", "u">>, <<"r", "u", "r">>}
Chained(op, c) ==
    IF c = "r" /\ ~registered
    THEN [Did(op) EXCEPT !.chain = <<"r">>, !.before = Obs, !.first = Obs']
    ELSE IF last.chain # <<>> /\ Append(last.chain, c) \in Chains
    THEN [Did(op) EXCEPT !.chain = Append(last.chain, c),
                         !.before = last.before,
                         !.first = last.first]
    ELSE Did(op)

\* installing raises inside register(): signal.signal and add_signal_handler
\* off the main thread, add_signal_handler on a loop that does not implement it
InstallFails == ~cfg.main_thread \/ (~cfg.is_windows /\ ~cfg.loop_signals)

\* variant: register() starts the coordinator over in Idle
register_loop_state_reinitialized ==
    /\ ctrl_c_pressed' = FALSE
    /\ waiting_for_input' = FALSE

\* register() and the two loop attributes: no statement of it assigns them
register_loop_state == UNCHANGED flagvars

\* variant: when installing fails, the simplified handler is installed instead
register_with_fallback ==
    /\ alive /\ pc = "loop"
    /\ registered' = TRUE
    /\ register_loop_state
    /\ UNCHANGED <<cfg, original_handler, pending, pc, taskvars, exitvars>>
    /\ IF cfg.is_windows \/ InstallFails
       THEN /\ original_sigint_handler' = handlers[SIGINT]
            /\ handlers' = [handlers EXCEPT ![SIGINT] = windows_handler]
            /\ UNCHANGED <<original_sigterm_handler, loop_handlers, other_callbacks>>
       ELSE LET a == add_signal_handler(Obs, SIGINT)
                b == add_signal_handler(a, SIGTERM)
            IN  /\ original_sigint_handler' = None
                /\ original_sigterm_handler' = None
                /\ handlers' = b.handlers
                /\ loop_handlers' = b.loop_handlers
                /\ other_callbacks' = b.other_callbacks
    /\ last' = Chained("register", "r")

\* register(); when installing fails the primitive raises before it installs
\* anything, and the except clause passes over it
register ==
    /\ alive /\ pc = "loop"
    /\ registered' = TRUE
    /\ register_loop_state
    /\ UNCHANGED <<cfg, original_handler, pending, pc, taskvars, exitvars>>
    /\ IF InstallFails
       THEN UNCHANGED <<original_sigint_handler, original_sigterm_handler, handlers,
                        loop_handlers, other_callbacks>>
       ELSE IF cfg.is_windows
       THEN /\ original_sigint_handler' = handlers[SIGINT]
            /\ handlers' = [handlers EXCEPT ![SIGINT] = windows_handler]
            /\ UNCHANGED <<original_sigterm_handler, loop_handlers, other_callbacks>>
       ELSE LET a == add_signal_handler(Obs, SIGINT)
                b == add_signal_handler(a, SIGTERM)
            IN  /\ original_sigint_handler' = None
                /\ original_sigterm_handler' = None
                /\ handlers' = b.handlers
                /\ loop_handlers' = b.loop_handlers
                /\ other_callbacks' = b.other_callbacks
    /\ last' = Chained("register", "r")

\* variant: the exception of a signal primitive leaves unregister()
unregister_failure_propagates == [caught |-> FALSE, raised |-> TRUE]

\* unregister's except clause: the exception is logged with a warning and
\* unregister() returns
unregister_failure == [caught |-> TRUE, raised |-> FALSE]

\* variant: the teardown also resets SIGTERM, which register() never touched
\* on Windows
unregister_resets_sigterm ==
    /\ alive /\ pc = "loop"
    /\ UNCHANGED <<cfg, flagvars, original_handler, pending, pc, taskvars, exitvars,
                   original_sigint_handler, original_sigterm_handler, registered>>
    /\ IF ~cfg.main_thread
       THEN UNCHANGED <<handlers, loop_handlers, other_callbacks>>
       ELSE LET a == remove_signal_handler(Obs, SIGINT)
                b == remove_signal_handler(a, SIGTERM)
                c == IF Truthy(original_sigint_handler)
                     THEN [b.handlers EXCEPT ![SIGINT] = original_sigint_handler]
                     ELSE b.handlers
            IN  /\ handlers' = [c EXCEPT ![SIGTERM] = SIG_DFL]
                /\ loop_handlers' = b.loop_handlers
                /\ other_callbacks' = b.other_callbacks
    /\ last' = Chained("unregister", "u")

\* unregister(); off the main thread the loop has no callback of this handler
\* and nothing is recorded to restore; on a loop that does not implement
\* remove_signal_handler the first call raises, which the except clause logs
unregister ==
    /\ alive /\ pc = "loop"
    /\ UNCHANGED <<cfg, flagvars, original_handler, pending, pc, taskvars, exitvars,
                   original_sigint_handler, original_sigterm_handler, registered>>
    /\ IF ~cfg.main_thread \/ (~cfg.is_windows /\ ~cfg.loop_signals)
       THEN UNCHANGED <<handlers, loop_handlers, other_callbacks>>
       ELSE IF cfg.is_windows
       THEN /\ handlers' = IF Truthy(original_sigint_handler)
                           THEN [handlers EXCEPT ![SIGINT] = original_sigint_handler]
                           ELSE handlers
            /\ UNCHANGED <<loop_handlers, other_callbacks>>
       ELSE LET a == remove_signal_handler(Obs, SIGINT)
                b == remove_signal_handler(a, SIGTERM)
                c == IF Truthy(original_sigint_handler)
                     THEN [b.handlers EXCEPT ![SIGINT] = original_sigint_handler]
                     ELSE b.handlers
                d == IF Truthy(original_sigterm_handler)
                     THEN [c EXCEPT ![SIGTERM] = original_sigterm_handler]
                     ELSE c
            IN  /\ handlers' = d
                /\ loop_handlers' = b.loop_handlers
                /\ other_callbacks' = b.other_callbacks
    /\ LET fails == cfg.main_thread /\ ~cfg.is_windows /\ ~cfg.loop_signals
       IN  last' = [Chained("unregister", "u") EXCEPT
                        !.caught = (fails /\ unregister_failure.caught),
                        !.raised = (fails /\ unregister_failure.raised)]

(* ------------------- signals arriving at the process ------------------- *)
\* a signal whose table entry is the loop's no-op handler: its number goes to
\* the wakeup descriptor and waits for the loop
DeliverQueued ==
    /\ alive
    /\ \E sig \in Signals :
       /\ handlers[sig] = sighandler_noop
       /\ pending' = Enqueue(pending, sig)
    /\ last' = Env(last)
    /\ UNCHANGED <<cfg, flagvars, regvars, original_handler, pc, taskvars, exitvars>>

\* SIGINT while windows_handler is installed: it runs at once
DeliverSigintWindows ==
    /\ alive
    /\ handlers[SIGINT] = windows_handler
    /\ run_windows_handler

\* SIGINT under default_int_handler outside wait_for_resume: KeyboardInterrupt
\* in host code, which ends the run without the coordinator taking part; or a
\* signal under SIG_DFL: the operating system ends the process
DeliverFatal ==
    /\ alive
    /\ \/ handlers[SIGINT] = default_int_handler /\ (pc = "loop" \/ ~cfg.main_thread)
       \/ \E sig \in Signals : handlers[sig] = SIG_DFL
    /\ alive' = FALSE
    /\ last' = Did("killed")
    /\ UNCHANGED <<cfg, flagvars, regvars, original_handler, pending, pc, taskvars,
                   _exiting, exit_calls, exit_code>>

\* a signal under SIG_IGN, under the host's own handler or under a handler
\* not installed from Python
DeliverElsewhere ==
    /\ alive
    /\ \E sig \in Signals : handlers[sig] \in {SIG_IGN, custom_handler, None}
    /\ last' = Env(last)
    /\ UNCHANGED <<cfg, flagvars, regvars, original_handler, pending, pc, taskvars, exitvars>>

(* ------------------------------ tasks ---------------------------------- *)
\* a task of the loop runs to its end (or to its cancellation)
TaskFinish ==
    /\ alive /\ pc = "loop"
    /\ Cardinality(done) < MaxFinished
    /\ \E t \in TaskNames \ done : done' = done \cup {t}
    /\ last' = Env(last)
    /\ UNCHANGED <<cfg, flagvars, regvars, original_handler, pending, pc,
                   cancel_requested, exitvars>>

(* --------------------------- specification ----------------------------- *)
Next ==
    \/ register
    \/ unregister
    \/ DeliverQueued
    \/ DeliverSigintWindows
    \/ DeliverFatal
    \/ DeliverElsewhere
    \/ DispatchSigint
    \/ DispatchSigterm
    \/ DispatchOther
    \/ DispatchDropped
    \/ WaitForResumeBegin
    \/ OperatorEnter
    \/ ReadRaises
    \/ KeyboardInterruptInRead
    \/ reset
    \/ TaskFinish

Spec == Init /\ [][Next]_vars

\* the loop keeps running callbacks while the main thread is in it; nothing
\* obliges the operator to type
LoopRuns == DispatchSigint \/ DispatchSigterm \/ DispatchOther \/ DispatchDropped
FairSpec == Spec /\ WF_vars(LoopRuns)

TypeOK ==
    /\ ctrl_c_pressed \in BOOLEAN
    /\ waiting_for_input \in BOOLEAN
    /\ _exiting \in BOOLEAN
    /\ alive \in BOOLEAN
    /\ pc \in {"loop", "input"}
    /\ loop_handlers \subseteq Signals
    /\ other_callbacks \subseteq Signals
    /\ loop_handlers \cap other_callbacks = {}
    /\ registered \in BOOLEAN
    /\ Len(pending) <= MaxPending
    /\ done \subseteq TaskNames
    /\ cancel_requested \subseteq TaskNames
    /\ exit_calls \in 0..MaxExitCalls

(* ============================ properties =============================== *)
\* the configured patterns, read as the claims read them: t contains pattern
\* p when t = pre \o p \o post for some pre and post
ContainsPattern(t) ==
    \E k \in DOMAIN interruptible_task_patterns :
        \E i \in 1..(Len(t) + 1) : \E j \in 0..Len(t) :
            SubSeq(t, i, j) = interruptible_task_patterns[k]

\* this step is the coordinator operation op
Ran(op) == last'.op = op /\ ~last'.env

SigtermPending == \E i \in DOMAIN pending : pending[i] = SIGTERM

\* C1: over the life of the process the exit callback is invoked at most once
C1_ExitCallbackAtMostOnce == exit_calls <= 1

\* the not-yet-finished tasks whose name contains a configured pattern
ExpectedCancelled == {t \in TaskNames : t \notin done /\ ContainsPattern(t)}

\* C2: sigint_handler run in Idle (ctrl_c_pressed false, not _exiting) leaves
\* the state Paused and requests cancellation of exactly the unfinished tasks
\* whose name contains a configured pattern; a task whose name contains none
\* of the patterns never has cancellation requested
C2_FirstInterruptCancelsMatching ==
    [][ /\ (Ran("sigint_handler") /\ ~ctrl_c_pressed /\ ~_exiting)
            => /\ ctrl_c_pressed' /\ alive'
               /\ last'.cancelled = ExpectedCancelled
               /\ cancel_requested' = cancel_requested \cup ExpectedCancelled
        /\ \A t \in cancel_requested' \ cancel_requested : ContainsPattern(t)
      ]_vars

\* C2 witness: the scenario of the specification, tasks step-3, multi_act-7 and
\* cleanup-1 running, patterns [step, multi_act]
C2_Witness ==
    /\ last.op = "sigint_handler" /\ ctrl_c_pressed /\ alive
    /\ cfg.patterns = [given |-> TRUE, list |-> <<n_step, n_multi_act>>]
    /\ done = {}
    /\ last.cancelled = {n_step_3, n_multi_act_7}
    /\ cancel_requested = {n_step_3, n_multi_act_7}

\* C3: with exit_on_second_int, an interrupt handled by sigint_handler while
\* Paused and not waiting for input (in particular right after the interrupt
\* that paused) terminates the process in that handler invocation with exit
\* code 0, the exit callback having been invoked exactly once
C3_SecondInterruptExits ==
    [][ (Ran("sigint_handler") /\ cfg.exit_on_second_int
            /\ ctrl_c_pressed /\ ~waiting_for_input /\ ~_exiting)
        => /\ ~alive' /\ exit_code' = <<0>>
           /\ exit_calls' = (IF cfg.has_callbacks THEN 1 ELSE 0)
           /\ last'.exit_called = cfg.has_callbacks
           /\ ~last'.pause_called /\ last'.cancelled = {}
      ]_vars

\* C3 witness: the process ended in sigint_handler's second-interrupt branch
\* after one exit-callback invocation
C3_Witness ==
    /\ ~alive /\ exit_code = <<0>>
    /\ last.op = "sigint_handler" /\ last.exit_called
    /\ cfg.exit_on_second_int /\ ctrl_c_pressed /\ ~waiting_for_input
    /\ exit_calls = 1

\* C4: without exit_on_second_int, an interrupt handled by sigint_handler
\* while Paused and not waiting for input does nothing: no callback, no
\* cancellation request, no termination, flags unchanged
C4_SecondInterruptNoOp ==
    [][ (Ran("sigint_handler") /\ ~cfg.exit_on_second_int
            /\ ctrl_c_pressed /\ ~waiting_for_input /\ ~_exiting)
        => /\ ~last'.pause_called /\ ~last'.resume_called /\ ~last'.exit_called
           /\ last'.cancelled = {}
           /\ UNCHANGED <<ctrl_c_pressed, waiting_for_input, _exiting, alive,
                          cancel_requested>>
      ]_vars

\* C5: a terminate signal handled in any state terminates the process and
\* takes no part of the pause path
C5_SigtermAlwaysTerminates ==
    [][ Ran("sigterm_handler")
        => /\ ~alive'
           /\ ~last'.pause_called /\ last'.cancelled = {}
           /\ UNCHANGED <<ctrl_c_pressed, cancel_requested>>
      ]_vars

\* C6: the terminate path never blocks: while wait_for_resume is in its read
\* and a terminate signal waits for the loop, the terminate handler can run
\* without the operator typing anything
C6_TerminateNeverBlocks ==
    (alive /\ pc = "input" /\ SigtermPending) => ENABLED DispatchSigterm

\* the same as a progress property, for FairSpec: the read is left only by
\* the operator, so the behaviour that stays in it forever is fair
C6_TerminateLeadsToExit ==
    (alive /\ pc = "input" /\ SigtermPending) ~> ~alive

\* C7: an interrupt during the read of wait_for_resume is taken by the read
\* (KeyboardInterrupt), not by sigint_handler, and ends the process with the
\* exit callback invoked exactly once
C7_InterruptInReadExitsOnce ==
    [][ (alive /\ pc = "input" /\ (Ran("wait_for_resume_interrupt") \/ Ran("sigint_handler")))
        => /\ Ran("wait_for_resume_interrupt")
           /\ ~alive' /\ exit_code' = <<0>>
           /\ (cfg.has_callbacks => exit_calls' = 1)
      ]_vars

\* C8: interrupt handled in Idle, wait_for_resume completed by Enter, then a
\* terminate signal: exit callback invoked exactly once, process terminated,
\* no second pause
C8_ResumeThenSigterm ==
    [][ (last.op = "wait_for_resume" /\ ctrl_c_pressed /\ Ran("sigterm_handler"))
        => /\ ~alive'
           /\ (cfg.has_callbacks => exit_calls' = 1)
           /\ ~last'.pause_called /\ last'.cancelled = {}
           /\ UNCHANGED cancel_requested
      ]_vars

\* C9 as claimed: after Enter, wait_for_resume has invoked the resume callback,
\* restored the handler, cleared waiting_for_input and left ctrl_c_pressed false
C9_ResumeLeavesIdle ==
    [][ Ran("wait_for_resume")
        => /\ last'.resume_called = cfg.has_callbacks
           /\ handlers'[SIGINT] = original_handler
           /\ ~waiting_for_input'
           /\ ~ctrl_c_pressed'
      ]_vars

\* C9 amended: after Enter, wait_for_resume has invoked the resume callback;
\* when the handler read on entry can be reinstalled (main thread, a handler
\* installed from Python) it is installed again and waiting_for_input is
\* cleared, otherwise both stay as the read left them; ctrl_c_pressed is what
\* it was: until reset() the coordinator stays Paused, and with
\* exit_on_second_int the next interrupt handled terminates
C9_ResumeKeepsPaused ==
    [][ /\ Ran("wait_for_resume")
            => /\ last'.resume_called = cfg.has_callbacks
               /\ IF cfg.main_thread /\ original_handler # None
                  THEN handlers'[SIGINT] = original_handler /\ ~waiting_for_input'
                  ELSE UNCHANGED handlers /\ waiting_for_input'
               /\ ctrl_c_pressed' = ctrl_c_pressed
               /\ alive'
        /\ (last.op = "wait_for_resume" /\ ctrl_c_pressed /\ cfg.exit_on_second_int
                /\ Ran("sigint_handler"))
            => ~alive'
      ]_vars

\* C9 witness: resumed after a pause, coordinator handler back, still Paused
C9_Witness ==
    /\ last.op = "wait_for_resume" /\ last.resume_called
    /\ alive /\ pc = "loop"
    /\ handlers[SIGINT] = sighandler_noop
    /\ ~waiting_for_input /\ ctrl_c_pressed

\* C10: reset() leaves both flags false, and the interrupt handled next by
\* sigint_handler is a first interrupt: cancellation requested, pause callback
\* invoked, state Paused, process alive
C10_ResetThenFirstInterrupt ==
    [][ /\ Ran("reset") => (~ctrl_c_pressed' /\ ~waiting_for_input')
        /\ (last.op = "reset" /\ Ran("sigint_handler"))
            => /\ alive' /\ ctrl_c_pressed'
               /\ last'.pause_called = cfg.has_callbacks
               /\ last'.cancelled = ExpectedCancelled
      ]_vars

\* C11: whenever wait_for_resume returns to its caller, after Enter (the resume
\* callback raising or not) or after the read raised, the interrupt handler
\* installed at entry is installed again and waiting_for_input is false
C11_ResumeCleanupOnEveryReturn ==
    [][ (Ran("wait_for_resume") \/ Ran("wait_for_resume_read_error"))
        => /\ handlers'[SIGINT] = original_handler
           /\ ~waiting_for_input'
      ]_vars

\* C12: after register() followed by unregister(), the handlers of SIGINT and
\* SIGTERM are the ones installed immediately before register()
C12_UnregisterRestores ==
    (last.op = "unregister" /\ last.chain = <<"r", "u">>)
        => handlers = last.before.handlers

\* C13: after register(); unregister(); register() the handlers and callbacks
\* installed for the two signals are those installed after the first register()
C13_ReRegisterSameAsRegister ==
    (last.op = "register" /\ last.chain = <<"r", "u", "r">>)
        => Obs = last.first

\* C13 witness: a second registration after a teardown, the handler's own
\* handler installed for SIGINT
C13_Witness ==
    /\ last.op = "register" /\ last.chain = <<"r", "u", "r">>
    /\ cfg.main_thread /\ cfg.prior = SIG_IGN
    /\ handlers[SIGINT] \in {sighandler_noop, windows_handler}

\* C14: unregister() on a handler whose register() was never called changes no
\* signal handler and no callback of the loop, another party's included
C14_UnregisterBeforeRegisterIsNoOp ==
    [][ (Ran("unregister") /\ ~registered)
        => UNCHANGED <<handlers, loop_handlers, other_callbacks>>
      ]_vars

\* C15: after register(); register(); unregister() the handlers of the two
\* signals are the ones installed before the first register()
C15_RegisterTwiceThenUnregister ==
    (last.op = "unregister" /\ last.chain = <<"r", "r", "u">>)
        => handlers = last.before.handlers

\* C16: when the exit callback raises, on any of the four exit paths, the
\* exception does not leave the handler and the process has terminated when
\* the handler invocation ends
C16_ExitCallbackExceptionCaught ==
    [][ ( /\ \/ Ran("sigint_handler") \/ Ran("wait_for_resume_interrupt")
             \/ Ran("sigterm_handler") \/ Ran("windows_handler")
          /\ last'.exit_called /\ (last'.caught \/ last'.raised) )
        => (~last'.raised /\ ~alive')
      ]_vars

\* C17: an exception of the resume callback does not leave wait_for_resume
C17_ResumeCallbackExceptionCaught ==
    [][ (Ran("wait_for_resume") /\ last'.resume_called) => ~last'.raised ]_vars

\* C18: when the pause callback raises, the exception does not leave
\* sigint_handler, and the handler ends with the process alive, the state
\* Paused and cancellation requested for the interruptible tasks
C18_PauseCallbackExceptionCaught ==
    [][ (Ran("sigint_handler") /\ last'.pause_called /\ (last'.caught \/ last'.raised))
        => /\ ~last'.raised
           /\ alive' /\ ctrl_c_pressed'
           /\ last'.cancelled = ExpectedCancelled
           /\ ExpectedCancelled \subseteq cancel_requested'
      ]_vars

\* C18 witness: an interrupt paused the run, the pause callback raised and
\* the exception was caught, a task has its cancellation requested
C18_Witness ==
    /\ last.op = "sigint_handler" /\ last.pause_called /\ last.caught
    /\ alive /\ ctrl_c_pressed
    /\ last.cancelled # {}

\* C19: the exiting flag is never cleared, and no step ends with the flag set
\* and the process alive
C19_ExitingIsTerminal ==
    [][ /\ _exiting => _exiting'
        /\ _exiting' => ~alive'
      ]_vars

\* C20 as claimed: when installing fails inside register(), register() does
\* not raise and the simplified handler is installed for SIGINT afterwards
C20_RegisterFailureFallsBack ==
    [][ (Ran("register") /\ InstallFails)
        => (~last'.raised /\ handlers'[SIGINT] = windows_handler)
      ]_vars

\* C20 amended: when installing fails inside register(), register() does not
\* raise and installs nothing: the handlers and the loop's callbacks of both
\* signals are what they were, and no original handler is recorded
C20_RegisterFailureInstallsNothing ==
    [][ (Ran("register") /\ InstallFails)
        => /\ ~last'.raised /\ alive'
           /\ UNCHANGED <<handlers, loop_handlers, other_callbacks,
                          original_sigint_handler, original_sigterm_handler>>
      ]_vars

\* C20 witness: register() was called off the main thread and SIGINT still
\* has the handler it had
C20_Witness ==
    /\ last.op = "register" /\ ~cfg.main_thread
    /\ alive /\ registered
    /\ handlers[SIGINT] = default_int_handler /\ loop_handlers = {}

\* positions in the record of an operation's statements
Contains(steps, a) == \E i \in DOMAIN steps : steps[i] = a
Before(steps, a, b) == \E i, j \in DOMAIN steps : i < j /\ steps[i] = a /\ steps[j] = b

\* C21: unregister() never raises and returns to its caller, whatever was
\* registered before and whatever fails inside it
C21_UnregisterNeverRaises ==
    last.op = "unregister" => (~last.raised /\ alive /\ pc = "loop")

\* C21 witness: a call in which removing the loop's callback raised, and the
\* exception was caught and logged
C21_Witness ==
    /\ last.op = "unregister" /\ last.caught /\ ~last.raised
    /\ alive /\ pc = "loop"

\* C22: whenever the coordinator has terminated the process, the final notice
\* was printed before os._exit
C22_ForcedExitPrintsNotice ==
    (~alive /\ Contains(last.steps, "os_exit"))
        => Before(last.steps, "print_notice", "os_exit")

\* C23: whenever the coordinator has terminated the process, on any of its
\* paths, the exit code is 0
C23_ExitCodeZero ==
    (~alive /\ Contains(last.steps, "os_exit")) => exit_code = <<0>>

\* C23 witness: the process ended in sigint_handler's already-exiting branch
\* with exit code 0
C23_Witness ==
    /\ ~alive /\ exit_code = <<0>>
    /\ last.op = "sigint_handler" /\ last.steps = <<"os_exit">>

\* C24: while no wait_for_resume() call is in progress, waiting_for_input is
\* false
C24_WaitingOnlyDuringResume ==
    pc = "loop" => ~waiting_for_input

\* C25: sigint_handler run while Paused with waiting_for_input true and not
\* exiting changes no flag, invokes no callback, requests no cancellation and
\* leaves the process alive
C25_InterruptWhileWaitingIgnored ==
    [][ (Ran("sigint_handler") /\ ctrl_c_pressed /\ waiting_for_input /\ ~_exiting)
        => /\ UNCHANGED <<ctrl_c_pressed, waiting_for_input, _exiting, alive,
                          exit_calls, cancel_requested>>
           /\ ~last'.pause_called /\ ~last'.resume_called /\ ~last'.exit_called
           /\ last'.cancelled = {} /\ last'.steps = <<>>
      ]_vars

\* C25 witness: sigint_handler has just returned from its ignore branch: the
\* state is Paused, waiting_for_input is true, nothing was done
C25_Witness ==
    /\ last.op = "sigint_handler" /\ last.steps = <<>>
    /\ alive /\ ~_exiting
    /\ ctrl_c_pressed /\ waiting_for_input

\* C26 as claimed: on the pause path cancellation is requested, then the
\* pause callback is invoked, then the state becomes Paused
C26_PausedAfterCallback ==
    (last.op = "sigint_handler" /\ Contains(last.steps, "cancel_tasks"))
        => /\ Before(last.steps, "cancel_tasks", "set_ctrl_c_pressed")
           /\ last.pause_called
                => /\ Before(last.steps, "cancel_tasks", "pause_callback")
                   /\ Before(last.steps, "pause_callback", "set_ctrl_c_pressed")

\* C26 amended: on the pause path the state becomes Paused, then cancellation
\* is requested, then the pause callback is invoked
C26_PausedBeforeCancel ==
    (last.op = "sigint_handler" /\ Contains(last.steps, "cancel_tasks"))
        => /\ Before(last.steps, "set_ctrl_c_pressed", "cancel_tasks")
           /\ ctrl_c_pressed
           /\ last.pause_called
                => Before(last.steps, "cancel_tasks", "pause_callback")

\* C26 witness: a first interrupt was handled in Idle with a pause callback
C26_Witness ==
    /\ last.op = "sigint_handler" /\ last.pause_called /\ alive
    /\ last.steps = <<"set_ctrl_c_pressed", "cancel_tasks", "pause_callback",
                      "print_separator">>
    /\ last.cancelled # {}

\* C27: wherever the exit callback is invoked, the exiting flag was set before
C27_ExitingSetBeforeExitCallback ==
    Contains(last.steps, "exit_callback")
        => Before(last.steps, "set_exiting", "exit_callback")

C29_NoExitWithoutSecondIntOption ==
    [][ (~cfg.exit_on_second_int /\ ~_exiting
            /\ (Ran("sigint_handler") \/ Ran("wait_for_resume_interrupt")))
        => (alive' /\ ~last'.exit_called)
      ]_vars

\* the patterns as the constructor was given them
SuppliedPatterns ==
    IF cfg.patterns.given THEN cfg.patterns.list
    ELSE <<n_step, n_multi_act, n_get_next_action>>

\* t contains one of the patterns given to the constructor
ContainsSupplied(t) ==
    \E k \in DOMAIN SuppliedPatterns :
        \E i \in 1..(Len(t) + 1) : \E j \in 0..Len(t) :
            SubSeq(t, i, j) = SuppliedPatterns[k]

\* C30: the first interrupt requests cancellation of exactly the unfinished
\* tasks whose name contains a pattern of the list given to the constructor
\* (none for the empty list), the default patterns being used only when no
\* list was given
C30_PatternsAsSupplied ==
    [][ (Ran("sigint_handler") /\ ~ctrl_c_pressed /\ ~_exiting)
        => last'.cancelled = {t \in TaskNames : t \notin done /\ ContainsSupplied(t)}
      ]_vars

====
